---- MODULE Spec2Model ----
(***************************************************************************)
(* stevedor: create a virtual machine through the vSphere management API,  *)
(* upload an ISO and/or a VMDK to the datastore and attach devices.        *)
(*                                                                         *)
(* Two revisions of main() are modelled, selected by the variable rev:     *)
(*   "A"  src/main.go            (package-level flags, no networking)      *)
(*   "B"  src/unnamed/part_000   (vmConfig struct, -cpus/-mem, addNIC)     *)
(*                                                                         *)
(* Strings are sequences of tokens; the token "/" is the path separator    *)
(* and every other token is a run of characters that holds no separator.   *)
(* The remote platform is the environment: every call the program makes    *)
(* to it succeeds or fails nondeterministically.  trace records the calls  *)
(* the program makes, in program order.                                    *)
(***************************************************************************)
EXTENDS Integers, Sequences, FiniteSets, TLC

VARIABLES rev, vmName, isoPath, diskPath, networkName, persistent,
          pc, err, net, vm, exitCode, trace

vars == <<rev, vmName, isoPath, diskPath, networkName, persistent,
          pc, err, net, vm, exitCode, trace>>

(***************************************************************************)
(* Bounds of the model.                                                    *)
(***************************************************************************)
\* directories in front of a file name: 0..MaxDirDepth
MaxDirDepth == 1
\* -persistentSize ranges over 0 and k * 1024 MB, k in 1..MaxPersistentUnits
MaxPersistentUnits == 2

(***************************************************************************)
(* Program constants.                                                      *)
(***************************************************************************)
\* addVMDK(ctx, vm, dss, vmdkName, 1024): size of the uploaded disk, rev A
DefaultDiskMB == 1024
\* disk.CapacityInKB = sizeInMB * 1024
KBPerMB == 1024

Slash == "/"
EmptyString == <<>>
\* the literal the persistent disk is named by and diskPath is compared with
PersistentName == <<"linuxkit.vmdk">>
\* the literal file name addISO inserts into the CD-ROM
IsoName == <<"linuxkit.iso">>
\* if *vmName == "" { *vmName = "default" }
DefaultVMName == <<"default">>

(***************************************************************************)
(* Inputs.                                                                 *)
(***************************************************************************)
RECURSIVE DirPrefix(_)
DirPrefix(d) == IF d = 0 THEN <<>> ELSE DirPrefix(d - 1) \o <<Slash, "tmp">>

PathsOf(files) ==
    {EmptyString} \cup
    {IF d = 0 THEN <<f>> ELSE DirPrefix(d) \o <<Slash, f>> :
        d \in 0..MaxDirDepth, f \in files}

IsoPaths == PathsOf({"a.iso", "linuxkit.iso"})
DiskPaths == PathsOf({"d.vmdk", "linuxkit.vmdk"})
VMNames == {EmptyString, <<"vm1">>}
NetworkNames == {EmptyString, <<"VM Network">>}
PersistentSizes == {0} \cup {k * 1024 : k \in 1..MaxPersistentUnits}
Revisions == {"A", "B"}

(***************************************************************************)
(* Pure functions of the program.                                          *)
(***************************************************************************)
\* strings.LastIndex(path, "/"), shifted to 1-based positions (0: none)
LastSlash(p) ==
    LET S == {i \in 1..Len(p) : p[i] = Slash}
    IN  IF S = {} THEN 0 ELSE CHOOSE i \in S : \A j \in S : j <= i

\* _, file := path.Split(p)
pathSplitFile(p) == SubSeq(p, LastSlash(p) + 1, Len(p))

\* fmt.Sprintf("%s/%s", a, b)
Sprintf2(a, b) == a \o <<Slash>> \o b

\* uploadFile: the local path the function reads.  Rev A is handed the
\* path by its caller; rev B is handed the whole vmConfig and reads
\* *newVM.isoPath whatever the caller meant.
uploadLocalPath(arg) == IF rev = "A" THEN arg ELSE isoPath

\* uploadFile with the destination name fixed the way addISO fixes it
uploadDestFixedName(local) == Sprintf2(vmName, IsoName)

\* uploadFile: dss.NewURL(fmt.Sprintf("%s/%s", vmName, fileName))
uploadDest(local) == Sprintf2(vmName, pathSplitFile(local))

\* addISO: dss.Path(fmt.Sprintf("%s/%s", vmName, "linuxkit.iso"))
isoDevicePath == Sprintf2(vmName, IsoName)

\* addVMDK: the disk's file name.  Rev A takes it from the caller; rev B
\* derives it from *newVM.diskPath on every call.
vmdkNameOf(arg) == IF rev = "A" THEN arg ELSE pathSplitFile(diskPath)

\* addVMDK: dss.Path(fmt.Sprintf("%s/%s", vmName, vmdkName))
vmdkDevicePath(arg) == Sprintf2(vmName, vmdkNameOf(arg))

\* addVMDK: disk.CapacityInKB.  Rev A: sizeInMB * 1024 of the caller's size;
\* rev B: *newVM.persistent * 1024 on every call.
capacityInKB(sizeArg) ==
    IF rev = "A" THEN sizeArg * KBPerMB ELSE persistent * KBPerMB

\* `if vm.AddDevice(ctx, add...); err != nil`: the call's result is dropped
\* and the condition reads the err of the statement before it.
errAfterAddDevice(errBefore, addErr) == errBefore

\* main: `if *diskPath != "linuxkit.vmdk"`, the whole flag value is compared
persistentAllowed == diskPath /= PersistentName

\* the NIC guard testing the resolved handle instead of the flag
nicWhenResolved == net /= "none"

\* main, rev B: `if *newVM.networkName != ""`
nicRequested == networkName /= EmptyString

\* the step main takes after the persistent-disk step
afterPersistent == IF rev = "A" THEN "return" ELSE "nic"

(***************************************************************************)
(* State after construction: flags parsed, nothing called yet.             *)
(***************************************************************************)
Init ==
    /\ rev \in Revisions
    /\ vmName \in VMNames
    /\ isoPath \in IsoPaths
    /\ diskPath \in DiskPaths
    /\ networkName \in NetworkNames
    /\ persistent \in PersistentSizes
    /\ pc = "connect"
    /\ err = "nil"
    /\ net = "none"
    /\ vm = "undefined"
    /\ exitCode = -1
    /\ trace = <<>>

Event(op, step, src, path, cap, result) ==
    [op |-> op, step |-> step, src |-> src, path |-> path, cap |-> cap,
     result |-> result, vm |-> vm]

\* exit(err): os.Exit(1); log.Fatalf exits with status 1 as well
exit ==
    /\ pc' = "exited"
    /\ exitCode' = 1

\* one call recorded, then either exit(err) or the next statement of main
Call(ev, fatal, next) ==
    /\ trace' = Append(trace, ev)
    /\ IF fatal THEN exit ELSE (pc' = next /\ exitCode' = exitCode)

Flags == <<rev, isoPath, diskPath, networkName, persistent>>

\* url.Parse, govmomi.NewClient
Connect ==
    /\ pc = "connect"
    /\ \E r \in {"ok", "error"} :
          /\ err' = IF r = "ok" THEN "nil" ELSE "error"
          /\ Call(Event("NewClient", "connect", <<>>, <<>>, 0, r), r /= "ok", "resolve")
    /\ UNCHANGED <<Flags, vmName, net, vm>>

\* DefaultDatacenter, DatastoreOrDefault, (rev B) NetworkOrDefault,
\* HostSystemOrDefault, ResourcePool
ResolveInventory ==
    /\ pc = "resolve"
    /\ \E r \in {"ok", "error"} :
          /\ err' = IF r = "ok" THEN "nil" ELSE "error"
          /\ net' = IF rev = "B" /\ r = "ok"
                    THEN (IF networkName = EmptyString THEN "default" ELSE "named")
                    ELSE "none"
          /\ Call(Event("Resolve", "resolve", <<>>, <<>>, 0, r), r /= "ok", "spec")
    /\ UNCHANGED <<Flags, vmName, vm>>

\* the VM name default (rev A), the config spec, CreateSCSIController, Folders
BuildSpec ==
    /\ pc = "spec"
    /\ vmName' = IF rev = "A" /\ vmName = EmptyString THEN DefaultVMName ELSE vmName
    /\ \E r \in {"ok", "error"} :
          /\ err' = IF r = "ok" THEN "nil" ELSE "error"
          /\ Call(Event("Folders", "spec", <<>>, <<>>, 0, r), r /= "ok", "create")
    /\ UNCHANGED <<Flags, net, vm>>

\* CreateVM with the blocking wait left out
CreateVMNoWait ==
    /\ pc = "create"
    /\ \E r \in {"ok", "error"} :
          /\ err' = IF r = "ok" THEN "nil" ELSE "error"
          /\ Call(Event("CreateVM", "create", <<>>, <<>>, 0, r), r /= "ok", "iso")
    /\ UNCHANGED <<Flags, vmName, net, vm>>

\* task, err := folders.VmFolder.CreateVM(ctx, spec, rp, hs)
CreateVM ==
    /\ pc = "create"
    /\ \E r \in {"ok", "error"} :
          /\ err' = IF r = "ok" THEN "nil" ELSE "error"
          /\ Call(Event("CreateVM", "create", <<>>, <<>>, 0, r), r /= "ok", "wait")
    /\ UNCHANGED <<Flags, vmName, net, vm>>

\* WaitForResult with the `if err != nil { exit(err) }` after it left out
WaitForResultIgnoreErr ==
    /\ pc = "wait"
    /\ \E r \in {"ok", "error"} :
          /\ err' = IF r = "ok" THEN "nil" ELSE "error"
          /\ vm' = IF r = "ok" THEN "created" ELSE vm
          /\ Call(Event("WaitForResult", "create", <<>>, <<>>, 0, r), FALSE, "iso")
    /\ UNCHANGED <<Flags, vmName, net>>

\* info, err := task.WaitForResult(ctx, nil); vm := object.NewVirtualMachine
WaitForResult ==
    /\ pc = "wait"
    /\ \E r \in {"ok", "error"} :
          /\ err' = IF r = "ok" THEN "nil" ELSE "error"
          /\ vm' = IF r = "ok" THEN "created" ELSE vm
          /\ Call(Event("WaitForResult", "create", <<>>, <<>>, 0, r), r /= "ok", "iso")
    /\ UNCHANGED <<Flags, vmName, net>>

\* the outcomes of one device-add function (addISO, addVMDK, addNIC):
\* a lookup before the mutation fails, the mutation is accepted, or the
\* platform rejects the mutation
AttachOutcomes == {"lookup_error", "ok", "rejected"}

\* whether a device-add function ends in exit(err): each lookup is followed
\* by `if err != nil { exit(err) }`; the AddDevice statement by the
\* condition errAfterAddDevice models
attachFatal(r) ==
    LET errBefore == IF r = "lookup_error" THEN "error" ELSE "nil"
        addErr == IF r = "rejected" THEN "error" ELSE "nil"
    IN  \/ errBefore /= "nil"
        \/ errAfterAddDevice(errBefore, addErr) /= "nil"

\* func uploadFile: log.Fatalf on an empty local path, else Client.UploadFile
uploadFile(arg, step, next) ==
    LET local == uploadLocalPath(arg)
    IN  \E r \in (IF local = EmptyString THEN {"no_file"} ELSE {"ok", "error"}) :
          Call(Event("uploadFile", step, local,
                     IF r = "no_file" THEN EmptyString ELSE uploadDest(local), 0, r),
               r /= "ok", next)

\* func addISO
addISO(step, next) ==
    \E r \in AttachOutcomes :
        /\ err' = IF r = "lookup_error" THEN "error" ELSE "nil"
        /\ Call(Event("addISO", step, EmptyString, isoDevicePath, 0, r),
                attachFatal(r), next)

\* func addVMDK
addVMDK(nameArg, sizeArg, step, next) ==
    \E r \in AttachOutcomes :
        /\ err' = IF r = "lookup_error" THEN "error" ELSE "nil"
        /\ Call(Event("addVMDK", step, vmdkNameOf(nameArg), vmdkDevicePath(nameArg),
                      capacityInKB(sizeArg), r),
                attachFatal(r), next)

\* func addNIC
addNIC(step, next) ==
    \E r \in AttachOutcomes :
        /\ err' = IF r = "lookup_error" THEN "error" ELSE "nil"
        /\ Call(Event("addNIC", step, EmptyString, EmptyString, 0, r),
                attachFatal(r), next)

\* main: if *isoPath != "" { uploadFile(...)
IsoUpload ==
    /\ pc = "iso"
    /\ isoPath /= EmptyString
    /\ uploadFile(isoPath, "iso", "isoAttach")
    /\ UNCHANGED <<Flags, vmName, net, vm, err>>

\* main: ... addISO(...) }
IsoAttach ==
    /\ pc = "isoAttach"
    /\ addISO("iso", "disk")
    /\ UNCHANGED <<Flags, vmName, net, vm>>

IsoSkip ==
    /\ pc = "iso"
    /\ isoPath = EmptyString
    /\ pc' = "disk"
    /\ UNCHANGED <<Flags, vmName, net, vm, err, exitCode, trace>>

\* main: if *diskPath != "" { uploadFile(...)
DiskUpload ==
    /\ pc = "disk"
    /\ diskPath /= EmptyString
    /\ uploadFile(diskPath, "disk", "diskAttach")
    /\ UNCHANGED <<Flags, vmName, net, vm, err>>

\* main: ... addVMDK(...) } with the disk's file name and the default size
DiskAttach ==
    /\ pc = "diskAttach"
    /\ addVMDK(pathSplitFile(diskPath), DefaultDiskMB, "disk", "persistent")
    /\ UNCHANGED <<Flags, vmName, net, vm>>

DiskSkip ==
    /\ pc = "disk"
    /\ diskPath = EmptyString
    /\ pc' = "persistent"
    /\ UNCHANGED <<Flags, vmName, net, vm, err, exitCode, trace>>

\* main: if *persistent != 0 { if *diskPath != "linuxkit.vmdk" { addVMDK(...) }
PersistentAttach ==
    /\ pc = "persistent"
    /\ persistent /= 0
    /\ persistentAllowed
    /\ addVMDK(PersistentName, persistent, "persistent", afterPersistent)
    /\ UNCHANGED <<Flags, vmName, net, vm>>

\* main: ... else { log.Errorf("Can not create persisten disk ...") } }
PersistentCollision ==
    /\ pc = "persistent"
    /\ persistent /= 0
    /\ ~persistentAllowed
    /\ Call(Event("Errorf", "persistent", EmptyString, EmptyString, 0, "logged"),
            FALSE, afterPersistent)
    /\ UNCHANGED <<Flags, vmName, net, vm, err>>

PersistentSkip ==
    /\ pc = "persistent"
    /\ persistent = 0
    /\ pc' = afterPersistent
    /\ UNCHANGED <<Flags, vmName, net, vm, err, exitCode, trace>>

\* main, rev B: if *newVM.networkName != "" { addNIC(ctx, vm, net) }
NicAttach ==
    /\ pc = "nic"
    /\ nicRequested
    /\ addNIC("nic", "return")
    /\ UNCHANGED <<Flags, vmName, net, vm>>

NicSkip ==
    /\ pc = "nic"
    /\ ~nicRequested
    /\ pc' = "return"
    /\ UNCHANGED <<Flags, vmName, net, vm, err, exitCode, trace>>

\* main returns: the process ends with status 0
Return ==
    /\ pc = "return"
    /\ pc' = "done"
    /\ exitCode' = 0
    /\ UNCHANGED <<Flags, vmName, net, vm, err, trace>>

Next ==
    \/ Connect
    \/ ResolveInventory
    \/ BuildSpec
    \/ CreateVM
    \/ WaitForResult
    \/ IsoUpload
    \/ IsoAttach
    \/ IsoSkip
    \/ DiskUpload
    \/ DiskAttach
    \/ DiskSkip
    \/ PersistentAttach
    \/ PersistentCollision
    \/ PersistentSkip
    \/ NicAttach
    \/ NicSkip
    \/ Return

Spec == Init /\ [][Next]_vars

(***************************************************************************)
(* Vocabulary of the properties.                                           *)
(***************************************************************************)
AttachOps == {"addISO", "addVMDK", "addNIC"}
UseOps == AttachOps \cup {"uploadFile"}

At(op) == {i \in DOMAIN trace : trace[i].op = op}
Count(op) == Cardinality(At(op))
AttachCount == Cardinality({i \in DOMAIN trace : trace[i].op \in AttachOps})

Succeeded == pc = "done" /\ exitCode = 0

\* the final segment of a path, read from its end
RECURSIVE FinalSegment(_)
FinalSegment(p) ==
    IF p = <<>> \/ p[Len(p)] = Slash
    THEN <<>>
    ELSE FinalSegment(SubSeq(p, 1, Len(p) - 1)) \o <<p[Len(p)]>>

\* <vmName>/<final segment of p>
DestOf(p) == vmName \o <<Slash>> \o FinalSegment(p)

\* an upload of local file p to <vmName>/<final segment of p> completed
\* before position i of the trace
UploadedBefore(p, i) ==
    \E j \in 1..(i - 1) :
        /\ trace[j].op = "uploadFile"
        /\ trace[j].result = "ok"
        /\ trace[j].src = p
        /\ trace[j].path = DestOf(p)

CreateFailed ==
    \E i \in DOMAIN trace :
        trace[i].op \in {"CreateVM", "WaitForResult"} /\ trace[i].result /= "ok"

\* C1: no upload and no device-attach call is issued before the create-VM
\* task was submitted and its wait returned success, and the VM handle is
\* defined at every such call.
C1_NoUseBeforeCreate ==
    \A i \in DOMAIN trace :
        trace[i].op \in UseOps =>
            /\ trace[i].vm = "created"
            /\ \E j \in 1..(i - 1) :
                  /\ trace[j].op = "WaitForResult"
                  /\ trace[j].result = "ok"
                  /\ \E k \in 1..(j - 1) :
                        trace[k].op = "CreateVM" /\ trace[k].result = "ok"

C1_Witness ==
    \E i, j \in DOMAIN trace :
        i < j /\ trace[i].op = "uploadFile" /\ trace[j].op \in AttachOps

\* C2: when the create-VM submission or its wait fails, the process has
\* exited with status 1 and the run holds no upload and no device-attach
\* call, whatever was requested.
C2_CreateFailureIsTerminal ==
    CreateFailed =>
        /\ pc = "exited"
        /\ exitCode = 1
        /\ \A i \in DOMAIN trace : trace[i].op \notin UseOps

C2_Witness ==
    /\ CreateFailed
    /\ trace[Len(trace)].op = "WaitForResult"
    /\ isoPath /= EmptyString
    /\ diskPath /= EmptyString
    /\ persistent /= 0
    /\ networkName /= EmptyString

\* C3: a device-add mutation the platform rejects ends the process with
\* status 1 at once, no later step is performed, and status 0 means no
\* call of the run failed.
C3_RejectedAttachIsFatal ==
    /\ \A i \in DOMAIN trace :
          (trace[i].op \in AttachOps /\ trace[i].result = "rejected") =>
              (pc = "exited" /\ exitCode = 1 /\ i = Len(trace))
    /\ exitCode = 0 =>
          \A i \in DOMAIN trace : trace[i].result \in {"ok", "logged"}

\* C4: with a disk path, the disk step's attachDisk is named by the final
\* segment of the disk path and comes only after the upload of the file the
\* disk path names to <vmName>/<that segment>; a successful run has one.
C4_DiskUploadThenAttach ==
    diskPath /= EmptyString =>
        /\ \A i \in DOMAIN trace :
              (trace[i].op = "addVMDK" /\ trace[i].step = "disk") =>
                  /\ trace[i].src = FinalSegment(diskPath)
                  /\ UploadedBefore(diskPath, i)
        /\ Succeeded =>
              \E i \in DOMAIN trace :
                  trace[i].op = "addVMDK" /\ trace[i].step = "disk"

\* C5: with a disk path and a nonzero persistent size, a successful run
\* holds exactly one disk-attach call when the persistent disk's name equals
\* the final segment of the disk path, and exactly two when it differs.
C5_NoDuplicateDiskAttach ==
    (Succeeded /\ diskPath /= EmptyString /\ persistent /= 0) =>
        Count("addVMDK") =
            (IF FinalSegment(diskPath) = PersistentName THEN 1 ELSE 2)

\* C6: with a disk path and a persistent size P whose names do not collide,
\* a successful run holds two disk-attach calls, the first of 1024 x 1024 KB,
\* the second of P x 1024 KB, with distinct datastore paths.
C6_TwoDisksCapacities ==
    (/\ Succeeded
     /\ diskPath /= EmptyString
     /\ persistent /= 0
     /\ FinalSegment(diskPath) /= PersistentName) =>
        /\ Count("addVMDK") = 2
        /\ \E i, j \in At("addVMDK") :
              /\ i < j
              /\ trace[i].cap = 1024 * 1024
              /\ trace[j].cap = persistent * 1024
              /\ trace[i].path /= trace[j].path

\* C7: with an ISO path, attachISO is invoked at most once, only after the
\* upload of the ISO to <vmName>/<final segment of the ISO path> completed,
\* and exactly once in every run that got past the ISO step.
C7_IsoUploadThenAttachOnce ==
    /\ \A i \in At("addISO") :
          isoPath /= EmptyString /\ UploadedBefore(isoPath, i)
    /\ Count("addISO") <= 1
    /\ (isoPath /= EmptyString
          /\ pc \in {"disk", "diskAttach", "persistent", "nic", "return", "done"}) =>
              Count("addISO") = 1

C7_Witness ==
    /\ Succeeded
    /\ Count("addISO") = 1
    /\ FinalSegment(isoPath) = <<"a.iso">>
    /\ Len(isoPath) > 1

\* C8: the datastore path attachISO inserts into the CD-ROM is the path the
\* ISO was uploaded to in the run.
C8_IsoAttachReferencesUpload ==
    \A i \in At("addISO") :
        \E j \in 1..(i - 1) :
            /\ trace[j].op = "uploadFile"
            /\ trace[j].step = "iso"
            /\ trace[j].result = "ok"
            /\ trace[j].path = trace[i].path

\* C9, as claimed: with no ISO path, no disk path and no network, whatever
\* the persistent size, a successful run holds one create-VM submission and
\* no device-attach call.
C9_BareRequestNoAttach ==
    (/\ Succeeded
     /\ isoPath = EmptyString
     /\ diskPath = EmptyString
     /\ networkName = EmptyString) =>
        Count("CreateVM") = 1 /\ AttachCount = 0

\* C9, amended: with no ISO path, no disk path and no network, a successful
\* run holds one create-VM submission, and no device-attach call when the
\* persistent size is zero, exactly one (the persistent disk) otherwise.
C9_BareRequestAttachOnlyPersistent ==
    (/\ Succeeded
     /\ isoPath = EmptyString
     /\ diskPath = EmptyString
     /\ networkName = EmptyString) =>
        /\ Count("CreateVM") = 1
        /\ AttachCount = (IF persistent = 0 THEN 0 ELSE 1)
        /\ Count("addVMDK") = AttachCount

C9_Witness ==
    /\ Succeeded
    /\ isoPath = EmptyString
    /\ diskPath = EmptyString
    /\ networkName = EmptyString
    /\ persistent = 0
    /\ rev = "B"
    /\ net = "default"

\* C10: attachNIC is invoked exactly when a network was resolved: once, as
\* the last step, in every successful run whose network lookup (by name or
\* by default) returned a handle, and in no other run.
C10_NicIffNetworkResolved ==
    /\ Count("addNIC") > 0 => net /= "none"
    /\ Succeeded =>
          IF net /= "none"
          THEN Count("addNIC") = 1 /\ trace[Len(trace)].op = "addNIC"
          ELSE Count("addNIC") = 0
====
